---- MODULE Spec2Model ----
(***************************************************************************)
(* Model of the per-frame rendering core in src/src/engine/engine.rs:      *)
(* the frame context (identity cache for program / mesh buffer, texture    *)
(* unit allocator), light gathering, render-command gathering and the      *)
(* draw loop of a render pass.                                             *)
(*                                                                         *)
(* Resources (textures, programs, buffers) and objects are identified by   *)
(* positive integers; 0 (NoRes) is an empty Weak / None.  A Weak<T> whose  *)
(* target has been dropped is an id in dropped[kind].                      *)
(***************************************************************************)
EXTENDS Integers, Sequences, FiniteSets, TLC

\* ------------------------------------------------------------------ bounds
NumTex == 9
MaxDropped == 1
MaxSwitch == 10
MaxFail == 1
NumRes == 2
MaxObjects == 2
MaxLightObjects == 6
MaxInaccessible == 1
MaxBad == 1
MaxSortObjects == 3
MaxFrameObjects == 3
MaxPasses == 2

\* ------------------------------------------------------- program constants
MAX_TEXTURE_UNITS == 8

NoRes == 0
NoUnit == 0 - 1

VARIABLES
    objects,    \* Engine.objects: the registry, in insertion order
    ready,      \* what a bind attempt on each resource reports
    ctx,        \* EngineContext of the running pass
    gl,         \* state of the graphics sink
    render_q,   \* RenderQueueList of the running pass
    pc,         \* position of the running pass
    cur,        \* queue and command the draw loop is at
    log,        \* operations issued to the sink in the running pass
    dropped,    \* per kind, the resources whose last strong reference is gone
    created,    \* number of texture identities handed out so far
    last,       \* the last call on the context and what it returned
    history     \* what the render calls so far left behind

vars == <<objects, ready, ctx, gl, render_q, pc, cur, log, dropped, created, last,
          history>>

passVars == <<objects, ready, render_q, pc, cur, log, history>>

\* ----------------------------------------------------------------- helpers
MinOf(S) == CHOOSE x \in S : \A y \in S : x <= y

RemoveAt(s, i) == SubSeq(s, 1, i - 1) \o SubSeq(s, i + 1, Len(s))

\* AssetResult: "Ok", or one of the AssetError kinds
Outcomes == {"Ok", "NotReady", "Other"}

\* ------------------------------------------------------------ EngineContext
\* #[derive(Default)] struct EngineContext
DefaultContext ==
    [mesh_buffer |-> NoRes, prog |-> NoRes, textures |-> <<>>,
     main_light |-> NoRes, point_lights |-> <<>>,
     switch_mesh |-> 0, switch_prog |-> 0, switch_tex |-> 0]

\* the sink right after Engine::new
InitialGl ==
    [tex |-> [u \in 0..(MAX_TEXTURE_UNITS - 1) |-> NoRes],
     prog |-> NoRes, buffer |-> NoRes,
     depth_mask |-> TRUE, depth_test |-> TRUE, depth_func |-> "Less"]

\* Weak::upgrade
Upgrade(kind, r) == IF r = NoRes \/ r \in dropped[kind] THEN NoRes ELSE r

\* Texture::bind(gl, unit): binds at the sink only when the texture is ready
TextureBind(g, tex, unit, outcome) ==
    IF outcome = "Ok" THEN [g EXCEPT !.tex[unit] = tex] ELSE g

need_cache_tex(c, new_tex) ==
    LET hits == {i \in 1..Len(c.textures) :
                    Upgrade("tex", c.textures[i].tex) = new_tex}
    IN  IF hits = {} THEN NoUnit ELSE c.textures[MinOf(hits)].unit

\* the closure setup_material hands to prepare_cache_tex
bind_tex_func(c, g, tex, unit, outcome) ==
    [ctx |-> IF outcome = "Ok" THEN [c EXCEPT !.switch_tex = @ + 1] ELSE c,
     gl |-> TextureBind(g, tex, unit, outcome),
     err |-> outcome]

\* prepare_cache_tex, "find the empty slots": the entry that goes when the
\* allocator is full, the first expired one or else the front
evict_pos(c) ==
    LET stale == {i \in 1..Len(c.textures) :
                    Upgrade("tex", c.textures[i].tex) = NoRes}
    IN  IF stale # {} THEN MinOf(stale) ELSE 1

\* variant: the unit is always the number of entries
chosen_unit_len(c) == Len(c.textures)

\* the unit handed to bind_func
chosen_unit(c) ==
    IF Len(c.textures) >= MAX_TEXTURE_UNITS
    THEN c.textures[evict_pos(c)].unit
    ELSE Len(c.textures)

\* the context bind_func runs on: the evicted entry is already removed
after_evict(c) ==
    IF Len(c.textures) >= MAX_TEXTURE_UNITS
    THEN [c EXCEPT !.textures = RemoveAt(@, evict_pos(c))]
    ELSE c

\* bind_func(self, unit).map(|_| { push_back((unit, new_tex)); unit })
record_texture(b, new_tex, unit) ==
    IF b.err = "Ok"
    THEN [ctx |-> [b.ctx EXCEPT !.textures =
                      Append(@, [unit |-> unit, tex |-> new_tex])],
          gl |-> b.gl, err |-> "Ok", ret |-> unit, called |-> unit]
    ELSE [ctx |-> b.ctx, gl |-> b.gl, err |-> b.err, ret |-> NoUnit,
          called |-> unit]

prepare_cache_tex(c, g, new_tex, outcome) ==
    IF need_cache_tex(c, new_tex) # NoUnit
    THEN [ctx |-> c, gl |-> g, err |-> "Ok", ret |-> need_cache_tex(c, new_tex),
          called |-> NoUnit]
    ELSE record_texture(
            bind_tex_func(after_evict(c), g, new_tex, chosen_unit(c), outcome),
            new_tex, chosen_unit(c))

\* ShaderProgram::bind(gl): makes the program current when it is ready
ProgramBind(g, p, outcome) ==
    IF outcome = "Ok" THEN [g EXCEPT !.prog = p] ELSE g

\* MeshBuffer::bind(gl, prog): binds the buffer when it is ready
MeshBufferBind(g, b, outcome) ==
    IF outcome = "Ok" THEN [g EXCEPT !.buffer = b] ELSE g

\* variant: the cache never reports a hit
need_cache_always(c, kind, new_p) == TRUE

need_cache(c, kind, new_p) ==
    LET p == Upgrade(kind, c[kind])
    IN  IF p = NoRes THEN TRUE ELSE p # new_p

\* the closures setup_material (program) and render_commands (mesh buffer)
\* hand to prepare_cache
bind_func(c, g, kind, r, outcome) ==
    [ctx |-> IF outcome # "Ok" THEN c
             ELSE IF kind = "prog" THEN [c EXCEPT !.switch_prog = @ + 1]
             ELSE [c EXCEPT !.switch_mesh = @ + 1],
     gl |-> IF kind = "prog" THEN ProgramBind(g, r, outcome)
                             ELSE MeshBufferBind(g, r, outcome),
     err |-> outcome]

\* variant: the cached identity is stored whatever the bind returned
store_cache_always(b, kind, new_p) ==
    [ctx |-> [b.ctx EXCEPT ![kind] = new_p], gl |-> b.gl, err |-> b.err,
     binds |-> 1]

\* prepare_cache after bind(self): "?" returns the error, otherwise the
\* cached identity becomes new_p
store_cache(b, kind, new_p) ==
    IF b.err = "Ok"
    THEN [ctx |-> [b.ctx EXCEPT ![kind] = new_p], gl |-> b.gl, err |-> "Ok",
          binds |-> 1]
    ELSE [ctx |-> b.ctx, gl |-> b.gl, err |-> b.err, binds |-> 1]

prepare_cache(c, g, kind, new_p, outcome) ==
    IF need_cache(c, kind, new_p)
    THEN store_cache(bind_func(c, g, kind, new_p, outcome), kind, new_p)
    ELSE [ctx |-> c, gl |-> g, err |-> "Ok", binds |-> 0]

\* ------------------------------------------- texture unit allocator alone
NoCall == [op |-> "none", arg |-> NoRes, err |-> "Ok", ret |-> NoUnit,
           called |-> NoUnit, binds |-> 0, fails |-> 0]

\* variant: the Transparent queue is drawn before the Skybox queue
QueueOrder_transparent_first == <<"Opaque", "Transparent", "Skybox">>

\* the order in which render_q.iter() yields the queues: the order of the
\* RenderQueue tags
QueueOrder == <<"Opaque", "Skybox", "Transparent">>

\* variant: every queue writes depth
NewRenderQueueList_all_write ==
    [q \in {"Opaque", "Skybox", "Transparent"} |->
        [depth_write |-> TRUE,
         depth_test |-> TRUE,
         depth_func |-> IF q = "Skybox" THEN "LessEqual" ELSE "Less",
         commands |-> <<>>]]

\* RenderQueueList::new
NewRenderQueueList ==
    [q \in {"Opaque", "Skybox", "Transparent"} |->
        [depth_write |-> (q = "Opaque"),
         depth_test |-> TRUE,
         depth_func |-> IF q = "Skybox" THEN "LessEqual" ELSE "Less",
         commands |-> <<>>]]

\* the materials, mesh surfaces and meshes the scenes are built from
Materials ==
    <<[program |-> 1, render_queue |-> "Opaque", textures |-> <<1>>],
      [program |-> 1, render_queue |-> "Transparent", textures |-> <<1, 2>>],
      [program |-> 2, render_queue |-> "Skybox", textures |-> <<2>>],
      [program |-> 2, render_queue |-> "Opaque", textures |-> <<>>]>>

Surfaces ==
    <<[buffer |-> 1, material |-> 1],
      [buffer |-> 1, material |-> 2],
      [buffer |-> 2, material |-> 3],
      [buffer |-> 2, material |-> 4]>>

Meshes == << <<1>>, <<2, 1>>, <<3>>, <<4, 2>> >>

ObjectKinds ==
    {[active |-> TRUE, light |-> "None", mesh |-> 1, dist |-> 1],
     [active |-> TRUE, light |-> "Point", mesh |-> 2, dist |-> 4],
     [active |-> FALSE, light |-> "Directional", mesh |-> 1, dist |-> 1],
     [active |-> TRUE, light |-> "Directional", mesh |-> 0, dist |-> 9],
     [active |-> TRUE, light |-> "None", mesh |-> 3, dist |-> 9],
     [active |-> TRUE, light |-> "None", mesh |-> 4, dist |-> 4]}

SceneRes ==
    [tex |-> UNION {{Materials[m].textures[k] : k \in 1..Len(Materials[m].textures)} :
                        m \in 1..Len(Materials)},
     prog |-> {Materials[m].program : m \in 1..Len(Materials)},
     mesh_buffer |-> {Surfaces[x].buffer : x \in 1..Len(Surfaces)}]

AllReady ==
    [tex |-> [r \in SceneRes.tex |-> "Ok"],
     prog |-> [r \in SceneRes.prog |-> "Ok"],
     mesh_buffer |-> [r \in SceneRes.mesh_buffer |-> "Ok"]]

\* no render call yet, nothing sorted yet
NoHistory ==
    [passes |-> 0, objects |-> <<>>, ready |-> AllReady,
     switch_mesh |-> 0, switch_prog |-> 0, switch_tex |-> 0,
     log |-> <<>>, depth_mask |-> TRUE,
     sort_in |-> <<>>, sort_out |-> <<>>]

\* Engine::new, and a context not yet used
InitEngine ==
    /\ objects = <<>>
    /\ ready = AllReady
    /\ ctx = DefaultContext
    /\ gl = InitialGl
    /\ render_q = NewRenderQueueList
    /\ pc = "idle"
    /\ cur = [q |-> 1, n |-> 1]
    /\ log = <<>>
    /\ dropped = [tex |-> {}, prog |-> {}, mesh_buffer |-> {}]
    /\ created = 0
    /\ last = NoCall
    /\ history = NoHistory

InitTex == InitEngine

\* the context, the sink and the call record take what the call returned
Returned(op, arg, r) ==
    /\ ctx' = r.ctx
    /\ gl' = r.gl
    /\ last' = [op |-> op, arg |-> arg, err |-> r.err, ret |-> r.ret,
                called |-> r.called,
                binds |-> r.binds,
                fails |-> last.fails + (IF r.err = "Ok" THEN 0 ELSE 1)]

\* a prepare_cache_tex result with the number of bind calls it made
WithBinds(r) ==
    [ctx |-> r.ctx, gl |-> r.gl, err |-> r.err, ret |-> r.ret,
     called |-> r.called, binds |-> IF r.called = NoUnit THEN 0 ELSE 1]

\* one assign; the texture is an existing one or the next new identity
Assign(t, outcome) ==
    /\ t \in 1..created \/ (t = created + 1 /\ created < NumTex)
    /\ t \notin dropped.tex
    /\ ctx.switch_tex < MaxSwitch
    /\ outcome # "Ok" => last.fails < MaxFail
    /\ Returned("prepare_cache_tex", t,
                WithBinds(prepare_cache_tex(ctx, gl, t, outcome)))
    /\ created' = IF t > created THEN t ELSE created
    /\ UNCHANGED <<dropped, passVars>>

\* the last Rc<Texture> of a texture goes away
DropTexture(t) ==
    /\ t \in 1..created
    /\ t \notin dropped.tex
    /\ Cardinality(dropped.tex) < MaxDropped
    /\ dropped' = [dropped EXCEPT !.tex = @ \cup {t}]
    /\ UNCHANGED <<ctx, gl, created, last, passVars>>

NextTex ==
    \/ \E t \in 1..NumTex, o \in Outcomes : Assign(t, o)
    \/ \E t \in 1..NumTex : DropTexture(t)

SpecTex == InitTex /\ [][NextTex]_vars

\* ------------------------------------------------ identity cache alone
CacheKinds == {"prog", "mesh_buffer"}

\* a prepare_cache result as a call record
AsCall(r) ==
    [ctx |-> r.ctx, gl |-> r.gl, err |-> r.err, ret |-> NoUnit,
     called |-> NoUnit, binds |-> r.binds]

PrepareCache(kind, r, outcome) ==
    /\ r \notin dropped[kind]
    /\ ctx.switch_prog + ctx.switch_mesh < MaxSwitch
    /\ outcome # "Ok" => last.fails < MaxFail
    /\ Returned("prepare_cache", r, AsCall(prepare_cache(ctx, gl, kind, r, outcome)))
    /\ UNCHANGED <<dropped, created, passVars>>

\* the last Rc of a program or mesh buffer goes away
DropResource(kind, r) ==
    /\ r \notin dropped[kind]
    /\ Cardinality(dropped.prog \cup dropped.mesh_buffer) < MaxDropped
    /\ dropped' = [dropped EXCEPT ![kind] = @ \cup {r}]
    /\ UNCHANGED <<ctx, gl, created, last, passVars>>

NextCache ==
    \/ \E k \in CacheKinds, r \in 1..NumRes, o \in Outcomes : PrepareCache(k, r, o)
    \/ \E k \in CacheKinds, r \in 1..NumRes : DropResource(k, r)

SpecCache == InitEngine /\ [][NextCache]_vars

\* ------------------------------------------------------- scene and registry
\* the synthesized Light::new(Directional::default()) component
DefaultLight == 0 - 1

\* objects that carry at most a Light component
LightKinds ==
    {[active |-> TRUE, light |-> l, mesh |-> 0, dist |-> 1] :
        l \in {"None", "Directional", "Point"}}

Inaccessible == {i \in 1..Len(objects) : objects[i].state # "live"}

\* IEngine::new_game_object, with the components game code attaches
NewGameObject(kind, max) ==
    /\ pc = "idle"
    /\ Len(objects) < max
    /\ objects' = Append(objects,
            [active |-> kind.active, light |-> kind.light, mesh |-> kind.mesh,
             dist |-> kind.dist, state |-> "live"])
    /\ UNCHANGED <<ready, ctx, gl, render_q, pc, cur, log, dropped, created, last, history>>

\* the last strong reference to an object goes away; the registry keeps
\* its Weak until Engine::end
DropObject(i) ==
    /\ pc = "idle"
    /\ i \in 1..Len(objects)
    /\ objects[i].state = "live"
    /\ Cardinality(Inaccessible) < MaxInaccessible
    /\ objects' = [objects EXCEPT ![i].state = "dropped"]
    /\ UNCHANGED <<ready, ctx, gl, render_q, pc, cur, log, dropped, created, last, history>>

\* a caller holds borrow_mut on the object while the pass runs
BorrowObject(i) ==
    /\ pc = "idle"
    /\ i \in 1..Len(objects)
    /\ objects[i].state = "live"
    /\ Cardinality(Inaccessible) < MaxInaccessible
    /\ objects' = [objects EXCEPT ![i].state = "locked"]
    /\ UNCHANGED <<ready, ctx, gl, render_q, pc, cur, log, dropped, created, last, history>>

\* ------------------------------------------------------------- render pass
Event(op, pos, res, err, unit, g) ==
    [op |-> op, pos |-> pos, res |-> res, err |-> err, unit |-> unit,
     sink |-> [prog |-> g.prog, buffer |-> g.buffer,
               depth_mask |-> g.depth_mask, depth_test |-> g.depth_test,
               depth_func |-> g.depth_func]]

ClearOptions ==
    {[clear_color |-> TRUE, clear_depth |-> TRUE, clear_stencil |-> FALSE],
     [clear_color |-> FALSE, clear_depth |-> FALSE, clear_stencil |-> TRUE]}

\* variant: the depth mask is left as the sink has it
clear_keep_mask(g, option) ==
    [gl |-> g,
     events |->
        (IF option.clear_color
            THEN <<Event("clear_color", 0, NoRes, "Ok", NoUnit, g)>> ELSE <<>>)
        \o (IF option.clear_depth
            THEN <<Event("clear_depth", 0, NoRes, "Ok", NoUnit, g)>> ELSE <<>>)
        \o (IF option.clear_stencil
            THEN <<Event("clear_stencil", 0, NoRes, "Ok", NoUnit, g)>> ELSE <<>>)]

\* Engine::clear: the sink after it and the clears it issues
clear(g, option) ==
    LET g1 == [g EXCEPT !.depth_mask = TRUE]
    IN  [gl |-> g1,
         events |->
            (IF option.clear_color
                THEN <<Event("clear_color", 0, NoRes, "Ok", NoUnit, g1)>> ELSE <<>>)
            \o (IF option.clear_depth
                THEN <<Event("clear_depth", 0, NoRes, "Ok", NoUnit, g1)>> ELSE <<>>)
            \o (IF option.clear_stencil
                THEN <<Event("clear_stencil", 0, NoRes, "Ok", NoUnit, g1)>> ELSE <<>>)]

\* variant: the pass goes on with the context of the pass before
BeginPass_keep_ctx(option) ==
    /\ pc = "idle"
    /\ ctx' = ctx
    /\ LET r == clear(gl, option) IN
        /\ gl' = r.gl
        /\ log' = r.events
    /\ render_q' = NewRenderQueueList
    /\ cur' = [q |-> 1, n |-> 1]
    /\ pc' = "cleared"
    /\ UNCHANGED <<objects, ready, dropped, created, last, history>>

\* render_pass up to and including self.clear(clear_option)
BeginPass(option) ==
    /\ pc = "idle"
    /\ ctx' = DefaultContext
    /\ LET r == clear(gl, option) IN
        /\ gl' = r.gl
        /\ log' = r.events
    /\ render_q' = NewRenderQueueList
    /\ cur' = [q |-> 1, n |-> 1]
    /\ pc' = "cleared"
    /\ UNCHANGED <<objects, ready, dropped, created, last, history>>

\* map_component::<Light>: the Light components handed to func, in registry
\* order, up to the first call of func that returns false
RECURSIVE map_component(_, _, _)
map_component(objs, i, first_only) ==
    IF i > Len(objs) THEN <<>>
    ELSE IF objs[i].state = "live" /\ objs[i].light # "None"
         THEN IF first_only THEN <<i>>
              ELSE <<i>> \o map_component(objs, i + 1, first_only)
         ELSE map_component(objs, i + 1, first_only)

find_all_components(objs) == map_component(objs, 1, FALSE)

find_component(objs) ==
    LET r == map_component(objs, 1, TRUE)
    IN  IF r = <<>> THEN NoRes ELSE r[1]

\* Iterator::take
Take(s, n) == SubSeq(s, 1, IF Len(s) < n THEN Len(s) ELSE n)

IsPoint(objs, c) == objs[c].light = "Point"

\* variant: no limit on the number of point lights
prepare_ctx_unlimited(c, objs) ==
    [c EXCEPT
        !.main_light = IF find_component(objs) = NoRes THEN DefaultLight
                       ELSE find_component(objs),
        !.point_lights = SelectSeq(find_all_components(objs),
                                   LAMBDA l : IsPoint(objs, l))]

prepare_ctx(c, objs) ==
    [c EXCEPT
        !.main_light = IF find_component(objs) = NoRes THEN DefaultLight
                       ELSE find_component(objs),
        !.point_lights = Take(SelectSeq(find_all_components(objs),
                                        LAMBDA l : IsPoint(objs, l)), 4)]

PrepareCtx ==
    /\ pc = "cleared"
    /\ ctx' = prepare_ctx(ctx, objects)
    /\ pc' = "lit"
    /\ UNCHANGED <<objects, ready, gl, render_q, cur, log, dropped, created, last, history>>

MaterialOf(cmd) == Materials[Surfaces[cmd.surface].material]

\* the loop over mesh.surfaces of gather_render_commands, from surface k on
RECURSIVE push_surfaces(_, _, _, _)
push_surfaces(objs, i, k, rq) ==
    LET surfaces == Meshes[objs[i].mesh] IN
    IF k > Len(surfaces) THEN rq
    ELSE LET cmd == [surface |-> surfaces[k], obj |-> i,
                     cam_distance |-> objs[i].dist]
             tag == MaterialOf(cmd).render_queue
         IN  push_surfaces(objs, i, k + 1,
                           [rq EXCEPT ![tag].commands = Append(@, cmd)])

\* variant: the active flag is not looked at
gather_render_commands_any(objs, i, rq) ==
    IF objs[i].mesh = 0 THEN rq ELSE push_surfaces(objs, i, 1, rq)

\* gather_render_commands for the object at registry position i
gather_render_commands(objs, i, rq) ==
    IF ~objs[i].active THEN rq
    ELSE IF objs[i].mesh = 0 THEN rq
    ELSE push_surfaces(objs, i, 1, rq)

\* variant: registry entries are gathered whatever their state
RECURSIVE gather_all_unchecked(_, _, _)
gather_all_unchecked(objs, i, rq) ==
    IF i > Len(objs) THEN rq
    ELSE gather_all_unchecked(objs, i + 1, gather_render_commands(objs, i, rq))

\* the "gather commands" loop of render_pass
RECURSIVE gather_all(_, _, _)
gather_all(objs, i, rq) ==
    IF i > Len(objs) THEN rq
    ELSE IF objs[i].state = "live"
         THEN gather_all(objs, i + 1, gather_render_commands(objs, i, rq))
         ELSE gather_all(objs, i + 1, rq)

GatherCommands ==
    /\ pc = "lit"
    /\ render_q' = gather_all(objects, 1, render_q)
    /\ pc' = "gathered"
    /\ UNCHANGED <<objects, ready, ctx, gl, cur, log, dropped, created, last, history>>

\* variant: nearest first
SortedByCamDistance_nearest_first(cmds) ==
    {s \in [1..Len(cmds) -> 1..Len(cmds)] :
        /\ \A a, b \in 1..Len(cmds) : a # b => s[a] # s[b]
        /\ \A a \in 1..(Len(cmds) - 1) :
                cmds[s[a]].cam_distance <= cmds[s[a + 1]].cam_distance}

\* the orders sort_unstable_by may leave: farthest first, ties in any order
SortedByCamDistance(cmds) ==
    {s \in [1..Len(cmds) -> 1..Len(cmds)] :
        /\ \A a, b \in 1..Len(cmds) : a # b => s[a] # s[b]
        /\ \A a \in 1..(Len(cmds) - 1) :
                cmds[s[a]].cam_distance >= cmds[s[a + 1]].cam_distance}

\* cmds in the order s
SortWith(cmds, s) == [a \in 1..Len(cmds) |-> cmds[s[a]]]

\* sort_by_cam_distance on the Transparent queue.  sort_unstable_by has no
\* source of randomness: the same commands come out in the same order as in
\* the sort before
SortTransparent ==
    /\ pc = "gathered"
    /\ \E s \in SortedByCamDistance(render_q["Transparent"].commands) :
        /\ history.sort_in = render_q["Transparent"].commands
                => SortWith(render_q["Transparent"].commands, s) = history.sort_out
        /\ render_q' = [render_q EXCEPT !["Transparent"].commands = SortWith(@, s)]
        /\ history' = [history EXCEPT
                            !.sort_in = render_q["Transparent"].commands,
                            !.sort_out = SortWith(render_q["Transparent"].commands, s)]
    /\ cur' = [q |-> 1, n |-> 1]
    /\ pc' = "queue"
    /\ UNCHANGED <<objects, ready, ctx, gl, log, dropped, created, last>>

\* the sink operation a prepare_cache_tex call made, if it made one
tex_events(t, tex, pos) ==
    IF t.called = NoUnit THEN <<>>
    ELSE <<Event("bind_tex", pos, tex, t.err, t.called, t.gl)>>

PrependEvents(ev, r) == [r EXCEPT !.events = ev \o @]

\* Material::bind: hands each texture to the closure in declared order and
\* stops at the first error
RECURSIVE material_bind(_, _, _, _, _)
RECURSIVE material_bind_next(_, _, _, _)
material_bind(c, g, texs, k, pos) ==
    IF k > Len(texs) THEN [ctx |-> c, gl |-> g, err |-> "Ok", events |-> <<>>]
    ELSE material_bind_next(
            prepare_cache_tex(c, g, texs[k], ready.tex[texs[k]]), texs, k, pos)

\* Material::bind after the closure returned t for texture k
material_bind_next(t, texs, k, pos) ==
    IF t.err # "Ok"
    THEN [ctx |-> t.ctx, gl |-> t.gl, err |-> t.err,
          events |-> tex_events(t, texs[k], pos)]
    ELSE PrependEvents(tex_events(t, texs[k], pos),
                       material_bind(t.ctx, t.gl, texs, k + 1, pos))

\* variant: the lights are set up before the textures are bound
material_lit_first(t, pos) ==
    IF t.err # "Ok" THEN t
    ELSE [t EXCEPT !.events =
            <<Event("setup_light", pos, Upgrade("prog", t.ctx.prog), "Ok",
                    NoUnit, t.gl)>> \o @]

\* setup_material after material.bind returned t: the lights are set up on
\* the current program when every texture was bound
material_lit(t, pos) ==
    IF t.err # "Ok" THEN t
    ELSE [t EXCEPT !.events = @ \o
            <<Event("setup_light", pos, Upgrade("prog", t.ctx.prog), "Ok",
                    NoUnit, t.gl)>>]

\* setup_material after prepare_cache on the program returned p
material_textures(p, material, pos) ==
    IF p.err # "Ok"
    THEN [ctx |-> p.ctx, gl |-> p.gl, err |-> p.err,
          events |-> IF p.binds = 0 THEN <<>>
                     ELSE <<Event("bind_prog", pos, material.program, p.err,
                                  NoUnit, p.gl)>>]
    ELSE PrependEvents(
            IF p.binds = 0 THEN <<>>
            ELSE <<Event("bind_prog", pos, material.program, p.err, NoUnit, p.gl)>>,
            material_lit(material_bind(p.ctx, p.gl, material.textures, 1, pos), pos))

setup_material(c, g, material, pos) ==
    material_textures(
        prepare_cache(c, g, "prog", material.program, ready.prog[material.program]),
        material, pos)

\* MeshBuffer::unbind
MeshBufferUnbind(g) == [g EXCEPT !.buffer = NoRes]

\* panic!: the pass ends here
stop(c, g, events, err, pos) ==
    [ctx |-> c, gl |-> g, panic |-> TRUE,
     events |-> events \o <<Event("panic", pos, NoRes, err, NoUnit, g)>>]

mesh_events(r, buffer, pos) ==
    IF r.binds = 0 THEN <<>>
    ELSE <<Event("bind_mesh", pos, buffer, r.err, NoUnit, r.gl)>>

\* setup_camera, commit, render and unbind of a command whose bindings
\* succeeded
draw(r, buffer, pos) ==
    <<Event("setup_camera", pos, r.ctx.prog, "Ok", NoUnit, r.gl),
      Event("commit", pos, r.ctx.prog, "Ok", NoUnit, r.gl),
      Event("draw", pos, buffer, "Ok", NoUnit, r.gl),
      Event("unbind_mesh", pos, buffer, "Ok", NoUnit, MeshBufferUnbind(r.gl))>>

\* variant: a mesh buffer that is not ready stops the pass
match_mesh_strict(r, events, buffer, pos) ==
    IF r.err = "Ok"
    THEN [ctx |-> r.ctx, gl |-> MeshBufferUnbind(r.gl), panic |-> FALSE,
          events |-> events \o mesh_events(r, buffer, pos) \o draw(r, buffer, pos)]
    ELSE stop(r.ctx, r.gl, events \o mesh_events(r, buffer, pos), r.err, pos)

\* "match r" of render_commands: r is what prepare_cache on the mesh buffer
\* returned
match_mesh(r, events, buffer, pos) ==
    IF r.err = "Ok"
    THEN [ctx |-> r.ctx, gl |-> MeshBufferUnbind(r.gl), panic |-> FALSE,
          events |-> events \o mesh_events(r, buffer, pos) \o draw(r, buffer, pos)]
    ELSE IF r.err = "NotReady"
    THEN [ctx |-> r.ctx, gl |-> r.gl, panic |-> FALSE,
          events |-> events \o mesh_events(r, buffer, pos)]
    ELSE stop(r.ctx, r.gl, events \o mesh_events(r, buffer, pos), r.err, pos)

\* the loop body of render_commands after setup_material returned m
after_material(m, buffer, pos) ==
    IF m.err = "NotReady"
    THEN [ctx |-> m.ctx, gl |-> m.gl, panic |-> FALSE, events |-> m.events]
    ELSE IF m.err # "Ok" THEN stop(m.ctx, m.gl, m.events, m.err, pos)
    ELSE match_mesh(
            prepare_cache(m.ctx, m.gl, "mesh_buffer", buffer,
                          ready.mesh_buffer[buffer]),
            m.events, buffer, pos)

\* one iteration of the loop over q.commands in render_commands
render_command(c, g, cmd, pos) ==
    after_material(setup_material(c, g, MaterialOf(cmd), pos),
                   Surfaces[cmd.surface].buffer, pos)

\* the commands of the pass in the order the queues are drawn
AllCommands ==
    render_q[QueueOrder[1]].commands \o render_q[QueueOrder[2]].commands
        \o render_q[QueueOrder[3]].commands

\* position in AllCommands of command n of queue number q
GlobalPos(q, n) ==
    n + (IF q > 1 THEN Len(render_q[QueueOrder[1]].commands) ELSE 0)
      + (IF q > 2 THEN Len(render_q[QueueOrder[2]].commands) ELSE 0)

\* where the draw loop goes after queue number q
AfterQueue(q) == IF q < Len(QueueOrder) THEN "queue" ELSE "done"

\* render_commands up to the loop: the queue's depth state goes to the sink
BeginQueue ==
    /\ pc = "queue"
    /\ LET q == render_q[QueueOrder[cur.q]] IN
        /\ gl' = [gl EXCEPT
                    !.depth_test = q.depth_test,
                    !.depth_func = IF q.depth_test THEN q.depth_func ELSE @,
                    !.depth_mask = q.depth_write]
        /\ IF q.commands = <<>>
           THEN /\ pc' = AfterQueue(cur.q)
                /\ cur' = [q |-> IF cur.q < Len(QueueOrder) THEN cur.q + 1 ELSE cur.q,
                           n |-> 1]
           ELSE /\ pc' = "commands"
                /\ cur' = [cur EXCEPT !.n = 1]
    /\ UNCHANGED <<objects, ready, ctx, render_q, log, dropped, created, last, history>>

\* the loop goes on with the next command or queue, or the pass stops
Advance(r) ==
    /\ ctx' = r.ctx
    /\ gl' = r.gl
    /\ log' = log \o r.events
    /\ IF r.panic
       THEN pc' = "panic" /\ cur' = cur
       ELSE IF cur.n < Len(render_q[QueueOrder[cur.q]].commands)
       THEN pc' = "commands" /\ cur' = [cur EXCEPT !.n = @ + 1]
       ELSE /\ pc' = AfterQueue(cur.q)
            /\ cur' = [q |-> IF cur.q < Len(QueueOrder) THEN cur.q + 1 ELSE cur.q,
                       n |-> 1]

RenderCommand ==
    /\ pc = "commands"
    /\ Advance(render_command(ctx, gl,
                              render_q[QueueOrder[cur.q]].commands[cur.n],
                              GlobalPos(cur.q, cur.n)))
    /\ UNCHANGED <<objects, ready, render_q, dropped, created, last, history>>

NotOk == {k \in {"tex", "prog", "mesh_buffer"} \X (1..NumRes) :
            k[2] \in DOMAIN ready[k[1]] /\ ready[k[1]][k[2]] # "Ok"}

\* the asset system makes progress, or a resource turns bad, between passes
AssetStep(kind, r, v) ==
    /\ pc = "idle"
    /\ r \in DOMAIN ready[kind]
    /\ ready[kind][r] # v
    /\ v # "Ok" /\ ready[kind][r] = "Ok" => Cardinality(NotOk) < MaxBad
    /\ ready' = [ready EXCEPT ![kind][r] = v]
    /\ UNCHANGED <<objects, ctx, gl, render_q, pc, cur, log, dropped, created, last, history>>

NextPass ==
    \/ \E k \in ObjectKinds : NewGameObject(k, MaxObjects)
    \/ \E i \in 1..MaxObjects : DropObject(i)
    \/ \E i \in 1..MaxObjects : BorrowObject(i)
    \/ \E k \in {"tex", "prog", "mesh_buffer"}, r \in 1..NumRes, v \in Outcomes :
            AssetStep(k, r, v)
    \/ \E o \in ClearOptions : BeginPass(o)
    \/ PrepareCtx
    \/ GatherCommands
    \/ SortTransparent
    \/ BeginQueue
    \/ RenderCommand

SpecPass == InitEngine /\ [][NextPass]_vars

\* ------------------------------------- passes over scenes at many distances
\* objects with an Opaque, a Transparent or a Skybox surface at squared
\* camera distances 1, 4 and 9
SortKinds ==
    {[active |-> TRUE, light |-> "None", mesh |-> 2, dist |-> d] : d \in {1, 4, 9}}
    \cup {[active |-> TRUE, light |-> "None", mesh |-> 1, dist |-> d] : d \in {1, 9}}
    \cup {[active |-> TRUE, light |-> "None", mesh |-> 3, dist |-> 4]}

NextSort ==
    \/ \E k \in SortKinds : NewGameObject(k, MaxSortObjects)
    \/ \E o \in ClearOptions : BeginPass(o)
    \/ PrepareCtx
    \/ GatherCommands
    \/ SortTransparent
    \/ BeginQueue
    \/ RenderCommand

SpecSort == InitEngine /\ [][NextSort]_vars

\* ------------------------------------------------- frames of render calls
\* render_pass returns: the context is dropped with the call, the sink and
\* the registry stay as the pass left them
FinishPass ==
    /\ pc = "done"
    /\ pc' = "idle"
    /\ history' = [history EXCEPT
                        !.passes = @ + 1,
                        !.objects = objects,
                        !.ready = ready,
                        !.switch_mesh = ctx.switch_mesh,
                        !.switch_prog = ctx.switch_prog,
                        !.switch_tex = ctx.switch_tex,
                        !.log = log,
                        !.depth_mask = gl.depth_mask]
    /\ UNCHANGED <<objects, ready, ctx, gl, render_q, cur, log, dropped, created, last>>

\* Engine::render with no main camera: "just clean the screen"
RenderNoCamera(option) ==
    /\ pc = "idle"
    /\ gl' = clear(gl, option).gl
    /\ log' = clear(gl, option).events
    /\ UNCHANGED <<objects, ready, ctx, render_q, pc, cur, dropped, created, last,
                   history>>

\* variant: the entries kept are those whose object is gone
end_keep_gone(objs) == SelectSeq(objs, LAMBDA o : o.state = "dropped")

\* Engine::end: objects.retain(|obj| obj.upgrade().is_some())
end(objs) == SelectSeq(objs, LAMBDA o : o.state # "dropped")

End ==
    /\ pc = "idle"
    /\ objects' = end(objects)
    /\ UNCHANGED <<ready, ctx, gl, render_q, pc, cur, log, dropped, created, last,
                   history>>

\* the objects the frames are built from
FrameKinds ==
    {[active |-> TRUE, light |-> "None", mesh |-> 1, dist |-> 1],
     [active |-> TRUE, light |-> "Point", mesh |-> 2, dist |-> 4],
     [active |-> TRUE, light |-> "None", mesh |-> 3, dist |-> 9]}

\* game code changes the scene before the first render call of a run
NextFrame ==
    \/ \E k \in FrameKinds : history.passes = 0 /\ NewGameObject(k, MaxFrameObjects)
    \/ \E i \in 1..MaxFrameObjects : history.passes = 0 /\ DropObject(i)
    \/ \E k \in {"tex", "prog", "mesh_buffer"}, r \in 1..NumRes,
           v \in {"Ok", "NotReady"} :
            history.passes = 0 /\ AssetStep(k, r, v)
    \/ \E o \in ClearOptions : history.passes < MaxPasses /\ BeginPass(o)
    \/ PrepareCtx
    \/ GatherCommands
    \/ SortTransparent
    \/ BeginQueue
    \/ RenderCommand
    \/ FinishPass
    \/ \E o \in ClearOptions : RenderNoCamera(o)
    \/ End

SpecFrame == InitEngine /\ [][NextFrame]_vars

\* ---------------------------------------------------- light gathering alone
NextLight ==
    \/ \E k \in LightKinds : NewGameObject(k, MaxLightObjects)
    \/ \E i \in 1..MaxLightObjects : DropObject(i)
    \/ \E i \in 1..MaxLightObjects : BorrowObject(i)
    \/ \E o \in ClearOptions : BeginPass(o)
    \/ PrepareCtx

SpecLight == InitEngine /\ [][NextLight]_vars

\* variant of a light component, by identity
LightVariant(c) == IF c = DefaultLight THEN "Directional" ELSE objects[c].light

\* the Light components of the accessible objects, by variant
FoundLights(variant) ==
    {i \in 1..Len(objects) :
        objects[i].state = "live" /\ objects[i].light = variant}

\* C1: a failed bind callback leaves the allocator's entries as they were,
\* also when the allocator already holds MAX_TEXTURE_UNITS entries
C1_FailureLeavesAllocatorUnchanged ==
    [][\A t \in 1..NumTex, o \in Outcomes :
        (Assign(t, o) /\ prepare_cache_tex(ctx, gl, t, o).err # "Ok")
            => ctx'.textures = ctx.textures]_vars

\* C2: no two entries with live textures hold the same unit index
C2_LiveEntriesHaveDistinctUnits ==
    \A i, j \in 1..Len(ctx.textures) :
        (/\ i # j
         /\ Upgrade("tex", ctx.textures[i].tex) # NoRes
         /\ Upgrade("tex", ctx.textures[j].tex) # NoRes)
            => ctx.textures[i].unit # ctx.textures[j].unit

\* C3: when assign returns unit u for texture T (hit or miss), the texture
\* most recently bound to u at the sink is T
C3_ReturnedUnitIsBoundToTexture ==
    [][\A t \in 1..NumTex, o \in Outcomes :
        (Assign(t, o) /\ prepare_cache_tex(ctx, gl, t, o).err = "Ok")
            => gl'.tex[prepare_cache_tex(ctx, gl, t, o).ret] = t]_vars

\* C4: prepare on a cached live resource invokes no bind and succeeds;
\* otherwise the bind is invoked once, the cache takes the new resource only
\* when the bind succeeds, and a failure is returned as it is with the cache
\* as before the call
C4_PrepareCacheContract ==
    [][\A k \in CacheKinds, r \in 1..NumRes, o \in Outcomes :
        PrepareCache(k, r, o) =>
            IF Upgrade(k, ctx[k]) = r
            THEN last'.binds = 0 /\ last'.err = "Ok" /\ ctx' = ctx
            ELSE /\ last'.binds = 1
                 /\ last'.err = o
                 /\ ctx'[k] = (IF o = "Ok" THEN r ELSE ctx[k])]_vars

C4_Witness ==
    /\ last.op = "prepare_cache"
    /\ last.err = "NotReady"
    /\ ctx.prog # NoRes
    /\ ctx.mesh_buffer # NoRes

\* C6: after light gathering the main light is a Directional light: the
\* first Directional Light component in registry order, or the synthesized
\* default when the scene has none
C6_MainLightIsDirectional ==
    pc = "lit" =>
        /\ ctx.main_light # NoRes
        /\ LightVariant(ctx.main_light) = "Directional"
        /\ ctx.main_light =
                (IF FoundLights("Directional") = {} THEN DefaultLight
                 ELSE MinOf(FoundLights("Directional")))

\* C7: the point-light list is the first min(4, N) Point lights of the
\* accessible objects in registry order, and holds nothing else
C7_PointLightsFirstFour ==
    pc = "lit" =>
        LET pl == ctx.point_lights
            N == Cardinality(FoundLights("Point"))
        IN  /\ Len(pl) = (IF N < 4 THEN N ELSE 4)
            /\ \A k \in 1..Len(pl) : pl[k] \in FoundLights("Point")
            /\ \A k \in 1..(Len(pl) - 1) : pl[k] < pl[k + 1]
            /\ \A k \in 1..Len(pl) : \A j \in FoundLights("Point") :
                    j < pl[k] => \E m \in 1..(k - 1) : pl[m] = j

C7_Witness ==
    /\ pc = "lit"
    /\ Cardinality(FoundLights("Point")) > 4
    /\ Len(ctx.point_lights) = 4
    /\ Inaccessible # {}

\* ---------------------------------------------- reading the pass back
Tags == {"Opaque", "Skybox", "Transparent"}

\* (object, surface index) of every surface of an accessible, active object
\* with a Mesh
GatherPairs ==
    UNION {{<<i, k>> : k \in 1..Len(Meshes[objects[i].mesh])} :
            i \in {j \in 1..Len(objects) :
                    /\ objects[j].state = "live"
                    /\ objects[j].active
                    /\ objects[j].mesh # 0}}

PairCmd(p) ==
    [surface |-> Meshes[objects[p[1]].mesh][p[2]], obj |-> p[1],
     cam_distance |-> objects[p[1]].dist]

PairsOf(q) == {p \in GatherPairs : MaterialOf(PairCmd(p)).render_queue = q}

Before(r, p) == r[1] < p[1] \/ (r[1] = p[1] /\ r[2] < p[2])

\* C8: each surface of each active accessible object with a Mesh gives one
\* command, in registry and surface order, in the queue of its material's
\* tag and in no other; nothing else is gathered
C8_OneCommandPerSurface ==
    pc = "gathered" =>
        /\ \A q \in Tags :
            LET cl == render_q[q].commands IN
            /\ Len(cl) = Cardinality(PairsOf(q))
            /\ \A p \in PairsOf(q) :
                   cl[1 + Cardinality({r \in PairsOf(q) : Before(r, p)})] = PairCmd(p)
        /\ Len(AllCommands) = Cardinality(GatherPairs)

C8_Witness ==
    /\ pc = "gathered"
    /\ \E i, j \in 1..Len(objects) :
        /\ ~objects[i].active /\ objects[i].mesh # 0 /\ objects[i].state = "live"
        /\ objects[j].active /\ objects[j].mesh = 2 /\ objects[j].state = "live"
    /\ Len(render_q["Opaque"].commands) = 1
    /\ Len(render_q["Transparent"].commands) = 1

\* C9: a registry entry that is dropped or locked gives no light and no
\* command and does not stop the pass, and the other objects are gathered
C9_InaccessibleObjectsSkipped ==
    /\ pc \notin {"idle", "cleared"} =>
        /\ ctx.main_light \notin Inaccessible
        /\ \A k \in 1..Len(ctx.point_lights) : ctx.point_lights[k] \notin Inaccessible
        /\ (ctx.main_light # DefaultLight) <=>
                (FoundLights("Directional") \cup FoundLights("Point") # {})
        /\ \A i \in FoundLights("Point") :
                \E k \in 1..Len(ctx.point_lights) : ctx.point_lights[k] = i
    /\ pc \notin {"idle", "cleared", "lit"} =>
        /\ \A n \in 1..Len(AllCommands) : AllCommands[n].obj \notin Inaccessible
        /\ \A i \in 1..Len(objects) :
                (objects[i].state = "live" /\ objects[i].active /\ objects[i].mesh # 0)
                    => Cardinality({n \in 1..Len(AllCommands) : AllCommands[n].obj = i})
                           = Len(Meshes[objects[i].mesh])
    /\ pc = "panic" => \E e \in 1..Len(log) : log[e].err = "Other"

C9_Witness ==
    /\ pc = "gathered"
    /\ Len(objects) = 2
    /\ objects[1].state # "live" /\ objects[1].active
    /\ objects[1].mesh # 0 /\ objects[1].light = "Point"
    /\ objects[2].state = "live"
    /\ ctx.point_lights = <<2>>
    /\ Len(AllCommands) = 2

\* positions of AllCommands the draw loop has gone through
Handled ==
    IF pc = "done" THEN 1..Len(AllCommands)
    ELSE IF pc \in {"queue", "commands"} THEN 1..(GlobalPos(cur.q, cur.n) - 1)
    ELSE IF pc = "panic" THEN 1..GlobalPos(cur.q, cur.n)
    ELSE {}

Draws(pos) == {e \in 1..Len(log) : log[e].op = "draw" /\ log[e].pos = pos}

Reports(pos, err) ==
    \E e \in 1..Len(log) : log[e].pos = pos /\ log[e].op # "panic" /\ log[e].err = err

\* C10: a command with a NotReady binding is not drawn and the pass goes on,
\* every handled command whose bindings all succeed is drawn exactly once,
\* and a bind failure of another kind stops the pass with no draw after it
C10_NotReadySkipsOtherAborts ==
    /\ \A pos \in Handled :
        /\ Reports(pos, "NotReady") => Draws(pos) = {}
        /\ (~Reports(pos, "NotReady") /\ ~Reports(pos, "Other"))
                => Cardinality(Draws(pos)) = 1
    /\ \A e \in 1..Len(log) : log[e].pos # 0 => log[e].pos \in Handled
    /\ pc = "panic" <=> \E e \in 1..Len(log) : log[e].op # "panic" /\ log[e].err = "Other"
    /\ \A e \in 1..Len(log) :
        (log[e].op # "panic" /\ log[e].err = "Other")
            => /\ Len(log) = e + 1
               /\ log[e + 1].op = "panic"
               /\ Draws(log[e].pos) = {}

C10_Witness ==
    /\ pc = "done"
    /\ \E a, b \in 1..Len(render_q["Opaque"].commands) :
        /\ a < b
        /\ Reports(a, "NotReady")
        /\ Cardinality(Draws(b)) = 1

\* resource a command uses in a category of the identity cache
ResOf(kind, pos) ==
    IF kind = "prog" THEN MaterialOf(AllCommands[pos]).program
    ELSE Surfaces[AllCommands[pos].surface].buffer

\* the commands that get to prepare_cache in a category: every command for
\* the program, the commands whose material was set up for the mesh buffer
Reaching(kind) ==
    {pos \in 1..Len(AllCommands) :
        \/ kind = "prog"
        \/ \E e \in 1..Len(log) : log[e].op = "setup_light" /\ log[e].pos = pos}

\* a..b spans a maximal run of consecutive such commands with one resource
IsRun(kind, a, b) ==
    LET R == Reaching(kind) IN
    /\ a \in R /\ b \in R /\ a <= b
    /\ \A x \in R : (a <= x /\ x <= b) => ResOf(kind, x) = ResOf(kind, a)
    /\ \A x \in R : (x < a /\ \A y \in R : ~(x < y /\ y < a))
                        => ResOf(kind, x) # ResOf(kind, a)
    /\ \A x \in R : (b < x /\ \A y \in R : ~(b < y /\ y < x))
                        => ResOf(kind, x) # ResOf(kind, b)

BindCalls(kind, a, b) ==
    {e \in 1..Len(log) :
        /\ log[e].op = (IF kind = "prog" THEN "bind_prog" ELSE "bind_mesh")
        /\ log[e].pos \in a..b}

\* C5 as stated: every run of consecutive commands with the same program or
\* mesh buffer issues exactly one bind call
C5_ExactlyOneBindPerRun ==
    pc = "done" =>
        \A kind \in CacheKinds : \A a, b \in 1..Len(AllCommands) :
            IsRun(kind, a, b) => Cardinality(BindCalls(kind, a, b)) = 1

\* resource of the last bind call of the category that succeeded before
\* command pos
LastBound(kind, pos) ==
    LET ok == {e \in BindCalls(kind, 1, pos - 1) : log[e].err = "Ok"}
    IN  IF ok = {} THEN NoRes
        ELSE log[CHOOSE e \in ok : \A f \in ok : f <= e].res

\* C5 amended: in every such run each command issues one bind call until a
\* bind call succeeds and no command after that one issues any, and the run
\* issues none when its resource is still the one bound last before the run
C5_OneBindUntilSuccess ==
    pc = "done" =>
        \A kind \in CacheKinds : \A a, b \in 1..Len(AllCommands) :
            IsRun(kind, a, b) =>
                \A x \in Reaching(kind) \cap (a..b) :
                    Cardinality(BindCalls(kind, x, x)) =
                        (IF \/ \E e \in BindCalls(kind, a, x - 1) : log[e].err = "Ok"
                            \/ LastBound(kind, a) = ResOf(kind, a)
                         THEN 0 ELSE 1)

C5_Witness ==
    /\ pc = "done"
    /\ \E kind \in CacheKinds : \E a, b \in 1..Len(AllCommands) :
        /\ IsRun(kind, a, b)
        /\ a < b
        /\ Cardinality(BindCalls(kind, a, b)) = 1
    /\ \E a, b \in 1..Len(AllCommands) :
        /\ IsRun("prog", a, b)
        /\ a < b
        /\ Cardinality(BindCalls("prog", a, b)) > 1

\* ------------------------------------------------------------ queue order
\* place of a tag in the order Opaque, Skybox, Transparent
QueueRank(tag) ==
    IF tag = "Opaque" THEN 1 ELSE IF tag = "Skybox" THEN 2 ELSE 3

\* queue tag of the material of the command an operation of the log is for
TagOf(e) == MaterialOf(AllCommands[log[e].pos]).render_queue

DrawEvents == {e \in 1..Len(log) : log[e].op = "draw"}

\* C11: within one pass every draw call of an Opaque command comes before
\* every draw call of a Skybox command, and those before every draw call of
\* a Transparent command, whatever the order of the registry
C11_QueuesDrawnInFixedOrder ==
    \A e, f \in DrawEvents :
        e < f => QueueRank(TagOf(e)) <= QueueRank(TagOf(f))

C11_Witness ==
    /\ pc = "done"
    /\ Len(objects) = 2
    /\ objects[1].mesh = 2
    /\ objects[2].mesh = 3
    /\ \A q \in Tags : \E e \in DrawEvents : TagOf(e) = q

\* ------------------------------------------------------------ sorted queue
\* the commands gathered for queue q, in gather order
Gathered(q) ==
    [n \in 1..Cardinality(PairsOf(q)) |->
        PairCmd(CHOOSE p \in PairsOf(q) :
                    Cardinality({r \in PairsOf(q) : Before(r, p)}) = n - 1)]

Distances(cmds) == [n \in 1..Len(cmds) |-> cmds[n].cam_distance]

\* t is s in some other order
IsPermutation(t, s) ==
    /\ Len(t) = Len(s)
    /\ \A x \in {s[n] : n \in 1..Len(s)} \cup {t[n] : n \in 1..Len(t)} :
            Cardinality({n \in 1..Len(t) : t[n] = x})
                = Cardinality({n \in 1..Len(s) : s[n] = x})

\* C12: after sorting, the Transparent queue is a permutation of the
\* gathered Transparent commands in non-increasing order of squared camera
\* distance; the Opaque and Skybox queues hold their commands in gather
\* order; and the commands are drawn in the order the queues hold them
C12_TransparentFarthestFirst ==
    /\ pc \in {"queue", "commands", "done"} =>
        /\ IsPermutation(render_q["Transparent"].commands, Gathered("Transparent"))
        /\ \A a \in 1..(Len(render_q["Transparent"].commands) - 1) :
                render_q["Transparent"].commands[a].cam_distance
                    >= render_q["Transparent"].commands[a + 1].cam_distance
        /\ render_q["Opaque"].commands = Gathered("Opaque")
        /\ render_q["Skybox"].commands = Gathered("Skybox")
    /\ \A e, f \in DrawEvents : e < f => log[e].pos < log[f].pos

C12_Witness ==
    /\ pc = "done"
    /\ Len(objects) = 3
    /\ \A i \in 1..3 : objects[i].mesh = 2
    /\ Distances(Gathered("Transparent")) = <<1, 9, 4>>
    /\ Distances(render_q["Transparent"].commands) = <<9, 4, 1>>
    /\ Distances(render_q["Opaque"].commands) = <<1, 9, 4>>
    /\ Cardinality(DrawEvents) = 6

\* ------------------------------------------------------------- depth state
\* the depth configuration of a queue tag
DepthConfig(tag) ==
    [depth_mask |-> (tag = "Opaque"),
     depth_test |-> TRUE,
     depth_func |-> IF tag = "Skybox" THEN "LessEqual" ELSE "Less"]

\* C13: at every draw call the depth write, depth test and depth function of
\* the sink are those of the queue of the command drawn (Opaque: write and
\* test on, Less; Skybox: write off, test on, LessEqual; Transparent: write
\* off, test on, Less), and the queue list holds exactly these three tags
C13_DepthStateOfQueueAtDraw ==
    /\ DOMAIN render_q = Tags
    /\ \A e \in DrawEvents :
        /\ log[e].sink.depth_mask = DepthConfig(TagOf(e)).depth_mask
        /\ log[e].sink.depth_test = DepthConfig(TagOf(e)).depth_test
        /\ log[e].sink.depth_func = DepthConfig(TagOf(e)).depth_func

C13_Witness ==
    /\ pc = "done"
    /\ \E e, f, g \in DrawEvents :
        /\ TagOf(e) = "Opaque" /\ log[e].sink.depth_mask
        /\ TagOf(f) = "Skybox" /\ log[f].sink.depth_func = "LessEqual"
        /\ TagOf(g) = "Transparent" /\ ~log[g].sink.depth_mask
        /\ log[g].sink.depth_func = "Less"

\* ---------------------------------------------------- allocator capacity
Units == 0..(MAX_TEXTURE_UNITS - 1)

\* C16: the allocator never holds more than MAX_TEXTURE_UNITS entries, and
\* every unit it stores, hands to the bind callback or returns is in 0..7,
\* after any sequence of hits, misses, evictions, expired textures and
\* failed binds
C16_AtMostEightEntriesUnitsInRange ==
    /\ Len(ctx.textures) <= MAX_TEXTURE_UNITS
    /\ \A i \in 1..Len(ctx.textures) : ctx.textures[i].unit \in Units
    /\ last.op = "prepare_cache_tex" =>
        /\ last.called # NoUnit => last.called \in Units
        /\ last.err = "Ok" => last.ret \in Units

C16_Witness ==
    /\ Len(ctx.textures) = MAX_TEXTURE_UNITS
    /\ created = NumTex
    /\ last.fails > 0
    /\ dropped.tex # {}
    /\ last.op = "prepare_cache_tex" /\ last.err = "Ok" /\ last.called # NoUnit

\* ------------------------------------------------------- allocator misses
UnitsInUse(c) == {c.textures[i].unit : i \in 1..Len(c.textures)}

Expired(c) ==
    {i \in 1..Len(c.textures) : Upgrade("tex", c.textures[i].tex) = NoRes}

\* the entry a miss at capacity has to evict: the first expired one in queue
\* order, the front when none is expired
Victim(c) == IF Expired(c) # {} THEN MinOf(Expired(c)) ELSE 1

\* a miss with fewer than MAX_TEXTURE_UNITS entries hands the bind callback a
\* unit no entry uses
MissBelowCapacityTakesUnusedUnit(t, o) ==
    (need_cache_tex(ctx, t) = NoUnit /\ Len(ctx.textures) < MAX_TEXTURE_UNITS)
        => /\ last'.called \notin UnitsInUse(ctx)
           /\ last'.err = "Ok" =>
                ctx'.textures = Append(ctx.textures, [unit |-> last'.called, tex |-> t])

\* a miss at capacity evicts the first expired entry, else the front, hands
\* its unit to the bind callback and appends the new pair at the back
MissAtCapacityEvictsVictim(t, o) ==
    (need_cache_tex(ctx, t) = NoUnit /\ Len(ctx.textures) = MAX_TEXTURE_UNITS)
        => /\ last'.called = ctx.textures[Victim(ctx)].unit
           /\ last'.err = "Ok" =>
                ctx'.textures = Append(RemoveAt(ctx.textures, Victim(ctx)),
                                       [unit |-> last'.called, tex |-> t])

\* a hit leaves every entry where it is
HitKeepsOrder(t, o) ==
    need_cache_tex(ctx, t) # NoUnit
        => /\ ctx'.textures = ctx.textures
           /\ last'.called = NoUnit

\* C17: below capacity a miss takes a unit no current entry uses; at capacity
\* it evicts the first expired entry in queue order, or the front when none
\* is expired; a successful miss appends the new pair at the back; a hit
\* does not move an entry
C17_MissHandling ==
    [][\A t \in 1..NumTex, o \in Outcomes :
        Assign(t, o) =>
            /\ MissBelowCapacityTakesUnusedUnit(t, o)
            /\ MissAtCapacityEvictsVictim(t, o)
            /\ HitKeepsOrder(t, o)]_vars

\* -------------------------------------------------- operations of a command
\* the operations of the log issued for the command at position pos
EventsAt(pos) == {e \in 1..Len(log) : log[e].pos = pos}

OpsAt(pos) == [n \in 1..Cardinality(EventsAt(pos)) |->
                log[CHOOSE e \in EventsAt(pos) :
                        Cardinality({f \in EventsAt(pos) : f < e}) = n - 1].op]

\* place of an operation in the order of one command
OpRank(op) ==
    IF op = "bind_prog" THEN 1
    ELSE IF op = "bind_tex" THEN 2
    ELSE IF op = "setup_light" THEN 3
    ELSE IF op = "bind_mesh" THEN 4
    ELSE IF op = "setup_camera" THEN 5
    ELSE IF op = "commit" THEN 6
    ELSE IF op = "draw" THEN 7
    ELSE IF op = "unbind_mesh" THEN 8
    ELSE 9

\* index of a texture in the declared bindings of the material at pos
TextureIndex(pos, tex) ==
    MinOf({k \in 1..Len(MaterialOf(AllCommands[pos]).textures) :
            MaterialOf(AllCommands[pos]).textures[k] = tex})

Count(pos, op) == Cardinality({e \in EventsAt(pos) : log[e].op = op})

\* C18: for each drawn command the operations come in the order program
\* bind, texture binds in declared order, lighting uniforms on the current
\* program, mesh-buffer bind, per-object uniforms, draw call, mesh-buffer
\* unbind; and no draw call is issued for a command unless its material
\* setup and its mesh-buffer prepare both succeeded
C18_OperationOrderPerCommand ==
    \A pos \in 1..Len(AllCommands) :
        Draws(pos) # {} =>
            /\ \A e, f \in EventsAt(pos) :
                e < f =>
                    /\ OpRank(log[e].op) <= OpRank(log[f].op)
                    /\ OpRank(log[e].op) = OpRank(log[f].op) =>
                        /\ log[e].op = "bind_tex"
                        /\ TextureIndex(pos, log[e].res) < TextureIndex(pos, log[f].res)
            /\ \A e \in EventsAt(pos) :
                /\ log[e].err = "Ok"
                /\ log[e].op = "bind_tex" =>
                    \E k \in 1..Len(MaterialOf(AllCommands[pos]).textures) :
                        MaterialOf(AllCommands[pos]).textures[k] = log[e].res
                /\ log[e].op = "bind_prog" => log[e].res = ResOf("prog", pos)
                /\ log[e].op = "bind_mesh" => log[e].res = ResOf("mesh_buffer", pos)
                /\ log[e].op \in {"setup_light", "setup_camera", "commit"} =>
                    /\ log[e].res = ResOf("prog", pos)
                    /\ log[e].sink.prog = ResOf("prog", pos)
                /\ \A f \in 1..Len(log) : (e < f /\ f \in EventsAt(pos)) =>
                        \A x \in e..f : x \in EventsAt(pos)
            /\ Count(pos, "bind_prog") <= 1
            /\ Count(pos, "bind_mesh") <= 1
            /\ Count(pos, "setup_light") = 1
            /\ Count(pos, "setup_camera") = 1
            /\ Count(pos, "commit") = 1
            /\ Count(pos, "draw") = 1
            /\ Count(pos, "unbind_mesh") = 1

C18_Witness ==
    /\ pc = "done"
    /\ \E pos \in 1..Len(AllCommands) :
        OpsAt(pos) = <<"bind_prog", "bind_tex", "bind_tex", "setup_light",
                       "bind_mesh", "setup_camera", "commit", "draw",
                       "unbind_mesh">>

\* ---------------------------------------------------- mesh buffer at draw
\* C19: at every draw call the mesh buffer bound at the sink is the buffer
\* of the command being drawn, also when the command before it was drawn
\* with the same buffer
C19_MeshBufferBoundAtDraw ==
    \A e \in DrawEvents :
        log[e].sink.buffer = ResOf("mesh_buffer", log[e].pos)

\* ------------------------------------------------------------ two passes
BindAndDrawOps == {"bind_prog", "bind_tex", "bind_mesh", "draw"}

\* the bind and draw operations of a log, without the sink state seen
Operations(l) ==
    [n \in 1..Len(SelectSeq(l, LAMBDA x : x.op \in BindAndDrawOps)) |->
        [op |-> SelectSeq(l, LAMBDA x : x.op \in BindAndDrawOps)[n].op,
         pos |-> SelectSeq(l, LAMBDA x : x.op \in BindAndDrawOps)[n].pos,
         res |-> SelectSeq(l, LAMBDA x : x.op \in BindAndDrawOps)[n].res,
         err |-> SelectSeq(l, LAMBDA x : x.op \in BindAndDrawOps)[n].err,
         unit |-> SelectSeq(l, LAMBDA x : x.op \in BindAndDrawOps)[n].unit]]

\* the pass that ends here ran on the scene and the readiness of the pass
\* before it
SameSceneAgain ==
    /\ pc = "done"
    /\ history.passes > 0
    /\ history.objects = objects
    /\ history.ready = ready

\* C14: every pass starts on a context with every cache empty and every
\* counter zero, and a pass on the same scene and the same readiness as the
\* pass before it ends with the same mesh, program and texture switch
\* counts and has issued the same sequence of bind and draw operations
C14_PassesAreIndependent ==
    /\ pc = "cleared" => ctx = DefaultContext
    /\ SameSceneAgain =>
        /\ ctx.switch_mesh = history.switch_mesh
        /\ ctx.switch_prog = history.switch_prog
        /\ ctx.switch_tex = history.switch_tex
        /\ Operations(log) = Operations(history.log)

C14_Witness ==
    /\ SameSceneAgain
    /\ ctx.switch_mesh > 0
    /\ ctx.switch_prog > 1
    /\ ctx.switch_tex > 0
    /\ \E e \in 1..Len(log) : log[e].err = "NotReady"
    /\ DrawEvents # {}
    /\ gl # InitialGl

\* --------------------------------------------------------- registry pruning
\* registry positions whose object still has a strong reference
Alive(objs) == {i \in 1..Len(objs) : objs[i].state # "dropped"}

NthAlive(objs, n) ==
    CHOOSE i \in Alive(objs) : Cardinality({j \in Alive(objs) : j < i}) = n - 1

\* a dropped object gives the running pass no light and no command
DroppedGiveNothing ==
    /\ pc \in {"lit", "gathered", "queue", "commands", "done"} =>
        /\ ctx.main_light \notin (1..Len(objects)) \ Alive(objects)
        /\ \A k \in 1..Len(ctx.point_lights) : ctx.point_lights[k] \in Alive(objects)
    /\ pc \in {"gathered", "queue", "commands", "done"} =>
        \A n \in 1..Len(AllCommands) : AllCommands[n].obj \in Alive(objects)
    /\ pc \in {"queue", "commands", "done"} =>
        \A e \in 1..Len(log) :
            log[e].pos # 0 => AllCommands[log[e].pos].obj \in Alive(objects)

ClearOps == {"clear_color", "clear_depth", "clear_stencil"}

\* C20: whenever a render pass, or a render with no main camera, clears a
\* buffer, depth writing is enabled at the sink, also when the pass before
\* left depth writing disabled
C20_DepthWriteEnabledAtClear ==
    /\ \A e \in 1..Len(log) : log[e].op \in ClearOps => log[e].sink.depth_mask
    /\ pc = "cleared" => gl.depth_mask

C20_Witness ==
    /\ pc = "cleared"
    /\ history.passes > 0
    /\ ~history.depth_mask
    /\ \E e \in 1..Len(log) : log[e].op = "clear_depth"
    /\ \E e \in 1..Len(history.log) :
        history.log[e].op = "draw" /\ ~history.log[e].sink.depth_mask

====
